---- MODULE Spec2Model ----
(***************************************************************************)
(* A model of PopPUNK's network functions (src/PopPUNK/network.py):        *)
(* constructNetwork, addQueryToNetwork, printClusters, extractReferences.  *)
(* The Network G is a networkx.Graph: a set of nodes and a set of          *)
(* undirected edges, an edge being the set of its end points (a self-loop  *)
(* is a one-element set).                                                  *)
(***************************************************************************)
EXTENDS Integers, Sequences, FiniteSets, TLC

\* ------------------------------------------------------------------ bounds

\* The number of query samples that may be offered to addQueryToNetwork.
MaxQueries == 3
\* The number of addQueryToNetwork calls in one behaviour.
MaxCalls == 2
\* The longest query list handed to constructNetwork beside the references.
MaxBuildQueries == 1
\* The number of clusters in a previous clustering.
MaxOld == 2
\* The number of nodes of a Network handed to extractReferences.
MaxNodes == 4

\* The reference database of the scenarios: two references.
RefList == <<"r1", "r2">>
QueryName == <<"q1", "q2", "q3", "q4", "q5">>
QueryPool == {QueryName[i] : i \in 1..MaxQueries}
\* Labels a classifier gives a pair; one of them is the within-strain label.
Labels == {"within", "between"}
\* model.within_label: the label of the within-strain component.
within_label == "within"

VARIABLES
    G,                \* the Network
    rlist,            \* reference names
    pc,               \* position of the running call
    ncalls,           \* addQueryToNetwork calls started so far
    qlist,            \* query names of the current / last call
    assignments,      \* labels of the current / last call
    new_edges,        \* addQueryToNetwork: list of edge tuples
    unassigned,       \* addQueryToNetwork: queries with no hits
    queryAssignation, \* addQueryToNetwork: labels of the batch round
    classified,       \* the query pairs model.assign labels within-strain
    scratch,          \* temporary directories and files that exist on disk
    error,            \* the call that raised, "" when none did
    hasOld,           \* printClusters: oldClusterFile != None
    oldClusters,      \* printClusters: the previous clustering, in file order
    newClusters,      \* printClusters: the components, largest first
    newClsIdx,        \* printClusters: components named so far
    clustering,       \* printClusters: sample -> cluster id
    new_ref_db,       \* printClusters: samples to add to the references
    new_id,           \* printClusters: the next fresh cluster id
    csv_rows,         \* printClusters: the rows of the cluster CSV
    cliques,          \* extractReferences: the cliques not yet visited
    references,       \* extractReferences: the reference list
    summary           \* networkSummary: the values returned

netVars == <<G, rlist, pc, ncalls, qlist, assignments, new_edges,
             unassigned, queryAssignation, classified, scratch, error>>

cluVars == <<hasOld, oldClusters, newClusters, newClsIdx, clustering,
             new_ref_db, new_id, csv_rows>>

refVars == <<cliques, references, summary>>

vars == <<netVars, cluVars, refVars>>

\* ----------------------------------------------------------------- helpers

Range(s) == {s[i] : i \in 1..Len(s)}

Min(a, b) == IF a < b THEN a ELSE b

\* The members of a set of sample names as a list, in name order.
RECURSIVE SortedList(_, _)
SortedList(S, names) ==
    IF names = <<>> THEN <<>>
    ELSE (IF Head(names) \in S THEN <<Head(names)>> ELSE <<>>)
         \o SortedList(S, Tail(names))

AllNames == RefList \o QueryName

ListOf(S) == SortedList(S, AllNames)

\* ------------------------------------------------- mash.iterDistRows (spec)

\* The combined sample list of a self comparison.
Combined(refSeqs, querySeqs) ==
    refSeqs \o SelectSeq(querySeqs, LAMBDA q : q \notin Range(refSeqs))

\* Row i of the upper triangle of L, the diagonal entry first.
RowPairs(L, i) == [j \in 1..(Len(L) - i + 1) |-> <<L[i], L[i + j - 1]>>]

RECURSIVE UpperTriangle(_, _)
UpperTriangle(L, i) ==
    IF i > Len(L) THEN <<>> ELSE RowPairs(L, i) \o UpperTriangle(L, i + 1)

\* Every (ref, query) cross pair, no self-pairs.
CrossPairs(refSeqs, querySeqs) ==
    [k \in 1..(Len(refSeqs) * Len(querySeqs)) |->
        <<refSeqs[((k - 1) % Len(refSeqs)) + 1],
          querySeqs[((k - 1) \div Len(refSeqs)) + 1]>>]

iterDistRows(refSeqs, querySeqs, self) ==
    IF self THEN UpperTriangle(Combined(refSeqs, querySeqs), 1)
    ELSE CrossPairs(refSeqs, querySeqs)

\* --------------------------------------------------------- networkx.Graph

EmptyGraph == [nodes |-> {}, edges |-> {}]

\* Mutant: the node set is replaced by the list.
set_nodes_from(g, list) == [g EXCEPT !.nodes = Range(list)]

add_nodes_from(g, list) == [g EXCEPT !.nodes = @ \cup Range(list)]

add_edge(g, u, v) ==
    [nodes |-> g.nodes \cup {u, v}, edges |-> g.edges \cup {{u, v}}]

RECURSIVE add_edges_from(_, _)
add_edges_from(g, list) ==
    IF list = <<>> THEN g
    ELSE add_edges_from(add_edge(g, Head(list)[1], Head(list)[2]), Tail(list))

\* ------------------------------------------------------- constructNetwork

\* The pairs of zip(assignments, pairs) whose assignment is the label.
RECURSIVE WithinPairs(_, _, _, _)
WithinPairs(assigned, pairs, label, k) ==
    IF k > Min(Len(assigned), Len(pairs)) THEN <<>>
    ELSE (IF assigned[k] = label THEN <<pairs[k]>> ELSE <<>>)
         \o WithinPairs(assigned, pairs, label, k + 1)

connections(rl, ql, assigned, label) ==
    WithinPairs(assigned, iterDistRows(rl, ql, TRUE), label, 1)

constructNetwork(rl, ql, assigned, label) ==
    add_edges_from(add_nodes_from(EmptyGraph, rl),
                   connections(rl, ql, assigned, label))

\* ------------------------------------------------------ addQueryToNetwork

\* Step 1: the direct reference-query links.
DirectEdges(rl, ql, assigned, label) ==
    WithinPairs(assigned, iterDistRows(rl, ql, FALSE), label, 1)

Assigned(rl, ql, assigned, label) ==
    {e[2] : e \in Range(DirectEdges(rl, ql, assigned, label))}

\* Mutant: every query goes to the batch round, hit or not.
UnassignedAll(rl, ql, assigned, label) == Range(ql)

Unassigned(rl, ql, assigned, label) ==
    Range(ql) \ Assigned(rl, ql, assigned, label)

\* Mutant: the batch round runs for a single unassigned query too.
RunsBatchAny(un) == Cardinality(un) >= 1

\* Line 181: the batch round runs.
RunsBatch(un) == Cardinality(un) > 1

\* The links between the unassigned queries found by the batch round.
BatchEdges(un, labels, label) ==
    WithinPairs(labels, iterDistRows(ListOf(un), ListOf(un), TRUE), label, 1)

ScratchOf(n) == {<<"dir", n>>, <<"file", n>>}

\* The exits of the batch round that raise.
ServiceCalls == {"getSketchSize", "constructDatabase", "queryDatabase"}

NPairsSelf(n) == (n * (n + 1)) \div 2

\* The unordered pairs of distinct members of S.
DistinctPairs(S) == {{a, b} : a, b \in S} \ {{a} : a \in S}

\* The pairs of distinct queries with a member that has no reference hit:
\* the pairs whose label could link a novel query.
OpenPairs(qs, un) == {p \in DistinctPairs(qs) : p \cap un # {}}

\* model.assign on the distances of the batch: one label per row. The label
\* of a pair of distinct queries is the classifier's for that pair (links);
\* the label of a self-pair is any.
assign(batch, links) ==
    {labels \in [1..NPairsSelf(Len(batch)) -> Labels] :
        \A k \in 1..NPairsSelf(Len(batch)) :
            LET row == iterDistRows(batch, batch, TRUE)[k]
            IN  row[1] # row[2] =>
                   (labels[k] = within_label <=> {row[1], row[2]} \in links)}

\* ----------------------------------------------------------- printClusters

\* The samples of the labelling scenarios: three that a previous clustering
\* may know and one that it does not.
PrevSamples == {"s1", "s2", "s3"}
ClusterSamples == PrevSamples \cup {"q1"}
\* The cluster ids a previous clustering CSV may hold.
IdPool == {"0", "1", "0_1"}

\* A cluster id: None, an int (numbered sequentially) or a str (taken from
\* the previous clustering).
NoneId == [kind |-> "none", num |-> 0, str |-> ""]
IntId(n) == [kind |-> "int", num |-> n, str |-> ""]
StrId(t) == [kind |-> "str", num |-> 0, str |-> t]

\* str(cls_id), as written to the CSV.
CsvId(id) ==
    IF id.kind = "int" THEN ToString(id.num)
    ELSE IF id.kind = "str" THEN id.str
    ELSE "None"

\* The nodes reached from S along edges.
RECURSIVE Reach(_, _)
Reach(g, S) ==
    LET next == S \cup {w \in g.nodes : \E v \in S : {v, w} \in g.edges}
    IN  IF next = S THEN S ELSE Reach(g, next)

connected_components(g) == {Reach(g, {v}) : v \in g.nodes}

Largest(S) == {c \in S : \A d \in S : Cardinality(c) >= Cardinality(d)}

Smallest(S) == {c \in S : \A d \in S : Cardinality(c) =< Cardinality(d)}

\* Mutant: the components sorted smallest first (reverse dropped).
RECURSIVE sorted_ascending(_)
sorted_ascending(S) ==
    IF S = {} THEN {<<>>}
    ELSE UNION {{<<c>> \o t : t \in sorted_ascending(S \ {c})} : c \in Smallest(S)}

\* sorted(components, key=len, reverse=True): every order that puts no
\* smaller component before a larger one (components of one size keep the
\* order networkx yields them in, which G's node order decides).
RECURSIVE sorted_by_size(_)
sorted_by_size(S) ==
    IF S = {} THEN {<<>>}
    ELSE UNION {{<<c>> \o t : t \in sorted_by_size(S \ {c})} : c \in Largest(S)}

\* Mutant: the fresh ids start at 0, as without a previous clustering.
FirstFreshIdZero(old) == 0

\* new_id = len(oldClusters), line 246.
FirstFreshId(old) == Len(old)

\* The samples in the previous clustering.
OldNames(old) == UNION {old[i].members : i \in 1..Len(old)}

\* Mutant: the whole cluster, queries included, is searched for.
RefOnlyAll(old, newCluster) == newCluster

\* Samples in this cluster that are not queries, line 263.
RefOnly(old, newCluster) == OldNames(old) \cap newCluster

\* Mutant: a cluster with a single previous observation counts as new.
IsNovelAtMostOne(ref_only) == Cardinality(ref_only) =< 1

\* A cluster with no previous observations, line 266.
IsNovel(ref_only) == Cardinality(ref_only) = 0

\* cls_id += "_" + oldClusterName, or the name itself on the first merge.
Merged(cls_id, name) ==
    IF cls_id.kind = "none" THEN StrId(name)
    ELSE StrId(cls_id.str \o "_" \o name)

\* Mutant: the scan stops at the first contributor of a merge.
RECURSIVE ScanFirstOnly(_, _, _, _)
ScanFirstOnly(ref_only, old, i, cls_id) ==
    IF i > Len(old) THEN [cls_id |-> cls_id, failed |-> FALSE]
    ELSE LET join == ref_only \cap old[i].members
         IN  IF Cardinality(join) > 0
             THEN IF Cardinality(join) < Cardinality(ref_only)
                  THEN [cls_id |-> Merged(cls_id, old[i].name), failed |-> FALSE]
                  ELSE IF cls_id.kind # "none"
                       THEN [cls_id |-> cls_id, failed |-> TRUE]
                       ELSE [cls_id |-> StrId(old[i].name), failed |-> FALSE]
             ELSE ScanFirstOnly(ref_only, old, i + 1, cls_id)

\* The search through the old cluster ids, lines 272-285, from old[i] on;
\* failed: the assertion of line 283 does not hold.
RECURSIVE ScanOld(_, _, _, _)
ScanOld(ref_only, old, i, cls_id) ==
    IF i > Len(old) THEN [cls_id |-> cls_id, failed |-> FALSE]
    ELSE LET join == ref_only \cap old[i].members
         IN  IF Cardinality(join) > 0
             THEN IF Cardinality(join) < Cardinality(ref_only)
                  THEN ScanOld(ref_only, old, i + 1, Merged(cls_id, old[i].name))
                  ELSE IF cls_id.kind # "none"
                       THEN [cls_id |-> cls_id, failed |-> TRUE]
                       ELSE [cls_id |-> StrId(old[i].name), failed |-> FALSE]
             ELSE ScanOld(ref_only, old, i + 1, cls_id)

\* clustering[cluster_member] = cls_id for every member, lines 291-292.
Labelled(cl, members, cls_id) ==
    [m \in (DOMAIN cl) \cup members |-> IF m \in members THEN cls_id ELSE cl[m]]

NoClustering == [m \in {} |-> NoneId]

\* The characters of a sample name: name[0], name[1].
Chars(name) ==
    CASE name = "s1" -> <<"s", "1">>
      [] name = "s2" -> <<"s", "2">>
      [] name = "s3" -> <<"s", "3">>
      [] name = "q1" -> <<"q", "1">>
      [] name = "q2" -> <<"q", "2">>
      [] name = "q3" -> <<"q", "3">>

\* ord(ch): the order Python compares characters in.
ord(ch) ==
    CASE ch = "1" -> 49
      [] ch = "2" -> 50
      [] ch = "3" -> 51
      [] ch = "q" -> 113
      [] ch = "s" -> 115

\* operator.itemgetter(0) on a name: its first character.
itemgetter0(name) == Chars(name)[1]

\* The sort key of line 298.
SortKey(name) == ord(itemgetter0(name))

\* sorted(list, key=...): a stable sort, names with equal keys keep the
\* order they have in the list.
RECURSIVE sorted_by_first_char(_)
sorted_by_first_char(list) ==
    IF list = <<>> THEN <<>>
    ELSE LET x == list[Len(list)]
             front == sorted_by_first_char(SubSeq(list, 1, Len(list) - 1))
         IN  SelectSeq(front, LAMBDA y : SortKey(y) =< SortKey(x))
             \o <<x>>
             \o SelectSeq(front, LAMBDA y : SortKey(y) > SortKey(x))

\* Every order of the members of a set (a set is iterated in hash order).
RECURSIVE Orders(_)
Orders(S) ==
    IF S = {} THEN {<<>>}
    ELSE UNION {{<<x>> \o t : t \in Orders(S \ {x})} : x \in S}

\* The key orders of the clustering dict after the loop of lines 257-292:
\* the components in their order, the members of each in any order.
RECURSIVE KeyOrders(_, _)
KeyOrders(cls, i) ==
    IF i > Len(cls) THEN {<<>>}
    ELSE {a \o b : a \in Orders(cls[i]), b \in KeyOrders(cls, i + 1)}

\* The rows written by lines 298-300.
CsvRows(keys, cl, printRef, oldNames) ==
    LET kept == SelectSeq(keys, LAMBDA m : printRef \/ m \in oldNames)
    IN  [k \in 1..Len(kept) |-> <<kept[k], CsvId(cl[kept[k]])>>]

\* ---------------------------------------------------------- networkSummary

\* A float that is the quotient of two ints: num / den.
Rat(n, d) == [num |-> n, den |-> d]

\* The sum of f over S.
RECURSIVE Sum(_, _)
Sum(f, S) ==
    IF S = {} THEN 0
    ELSE LET x == CHOOSE y \in S : TRUE IN f[x] + Sum(f, S \ {x})

\* set(G[v]) - {v}: the neighbours of v, v itself left out.
Neighbours(g, v) == {w \in g.nodes \ {v} : {v, w} \in g.edges}

\* Mutant: the density of a directed graph, m / (n (n - 1)).
density_directed(g) ==
    LET n == Cardinality(g.nodes)
        m == Cardinality(g.edges)
    IN  IF m = 0 \/ n =< 1 THEN Rat(0, 1) ELSE Rat(m, n * (n - 1))

\* nx.density(G): 0 if there is no edge or at most one node, else
\* 2 m / (n (n - 1)).
density(g) ==
    LET n == Cardinality(g.nodes)
        m == Cardinality(g.edges)
    IN  IF m = 0 \/ n =< 1 THEN Rat(0, 1) ELSE Rat(2 * m, n * (n - 1))

\* nx.transitivity(G): per node v of degree d, the triangles through v
\* counted twice and d (d - 1); 0 if there is no triangle, else the
\* quotient of the sums.
transitivity(g) ==
    LET t == [v \in g.nodes |->
                Cardinality({p \in Neighbours(g, v) \X Neighbours(g, v) :
                                p[1] # p[2] /\ {p[1], p[2]} \in g.edges})]
        c == [v \in g.nodes |->
                Cardinality(Neighbours(g, v)) * (Cardinality(Neighbours(g, v)) - 1)]
        triangles == Sum(t, g.nodes)
        contri == Sum(c, g.nodes)
    IN  IF triangles = 0 THEN Rat(0, 1) ELSE Rat(triangles, contri)

\* transitivity * (1 - density), line 135.
score(t, d) == Rat(t.num * (d.den - d.num), t.den * d.den)

\* networkSummary(G), lines 132-137.
networkSummary(g) ==
    [components |-> Cardinality(connected_components(g)),
     density |-> density(g),
     transitivity |-> transitivity(g),
     score |-> score(transitivity(g), density(g))]

\* networkSummary has not run.
NoSummary ==
    [components |-> 0, density |-> Rat(0, 1), transitivity |-> Rat(0, 1),
     score |-> Rat(0, 1)]

\* printClusters and extractReferences are not running.
CluIdle ==
    /\ hasOld = FALSE
    /\ oldClusters = <<>>
    /\ newClusters = <<>>
    /\ newClsIdx = 0
    /\ clustering = NoClustering
    /\ new_ref_db = <<>>
    /\ new_id = 0
    /\ csv_rows = <<>>
    /\ cliques = {}
    /\ references = <<>>
    /\ summary = NoSummary

\* ------------------------------------------------------- extractReferences

\* c is a clique of g (self-loops do not count).
IsClique(g, c) == \A u, v \in c : u # v => {u, v} \in g.edges

\* Mutant: cliques of one node (isolated nodes) are not listed.
find_cliques_of_two(g) ==
    {c \in (SUBSET g.nodes) \ {{}} :
        /\ Cardinality(c) >= 2
        /\ IsClique(g, c)
        /\ \A v \in g.nodes \ c : ~IsClique(g, c \cup {v})}

\* nx.find_cliques(G): the maximal cliques of g.
find_cliques(g) ==
    {c \in (SUBSET g.nodes) \ {{}} :
        /\ IsClique(g, c)
        /\ \A v \in g.nodes \ c : ~IsClique(g, c \cup {v})}

\* Lines 49-52: a node of the clique is a reference already.
AlreadyRepresented(clique, refs) == \E node \in clique : node \in Range(refs)

\* ------------------------------------------------------------------ state

Init ==
    /\ G = EmptyGraph
    /\ rlist = RefList
    /\ pc = "start"
    /\ ncalls = 0
    /\ qlist = RefList
    /\ assignments = <<>>
    /\ new_edges = <<>>
    /\ unassigned = {}
    /\ queryAssignation = <<>>
    /\ classified = {}
    /\ scratch = {}
    /\ error = ""
    /\ CluIdle

\* constructNetwork(rlist, qlist, assignments, within_label), one label per
\* enumerated pair.
Construct ==
    /\ pc = "start"
    /\ \E a \in [1..Len(iterDistRows(rlist, qlist, TRUE)) -> Labels] :
          /\ assignments' = a
          /\ G' = constructNetwork(rlist, qlist, a, within_label)
    /\ pc' = "idle"
    /\ UNCHANGED <<rlist, ncalls, qlist, new_edges, unassigned,
                   queryAssignation, classified, scratch, error>>
    /\ UNCHANGED cluVars
    /\ UNCHANGED refVars

\* addQueryToNetwork is entered: lines 167-181.
AddQueryCall ==
    /\ pc = "idle"
    /\ ncalls < MaxCalls
    /\ \E qs \in (SUBSET (QueryPool \ G.nodes)) \ {{}} :
       \E a \in [1..(Len(rlist) * Cardinality(qs)) -> Labels] :
          /\ qlist' = ListOf(qs)
          /\ assignments' = a
          /\ classified' \in SUBSET OpenPairs(qs,
                                 Unassigned(rlist, ListOf(qs), a, within_label))
          /\ new_edges' = DirectEdges(rlist, ListOf(qs), a, within_label)
          /\ unassigned' = Unassigned(rlist, ListOf(qs), a, within_label)
          /\ pc' = IF RunsBatch(Unassigned(rlist, ListOf(qs), a, within_label))
                   THEN "mkdtemp" ELSE "commit"
    /\ ncalls' = ncalls + 1
    /\ queryAssignation' = <<>>
    /\ error' = ""
    /\ UNCHANGED <<G, rlist, scratch>>
    /\ UNCHANGED cluVars
    /\ UNCHANGED refVars

\* mkdtemp, mkstemp and the write of the unassigned names: lines 185-189.
AddQueryMkdtemp ==
    /\ pc = "mkdtemp"
    /\ scratch' = scratch \cup ScratchOf(ncalls)
    /\ pc' = "service"
    /\ UNCHANGED <<G, rlist, ncalls, qlist, assignments, new_edges,
                   unassigned, queryAssignation, classified, error>>
    /\ UNCHANGED cluVars
    /\ UNCHANGED refVars

\* getSketchSize, constructDatabase, queryDatabase: lines 192-195. Any of
\* them may raise; nothing catches it.
AddQueryService ==
    /\ pc = "service"
    /\ \/ /\ pc' = "assign"
          /\ error' = error
       \/ \E c \in ServiceCalls :
             /\ pc' = "raised"
             /\ error' = c
    /\ UNCHANGED <<G, rlist, ncalls, qlist, assignments, new_edges,
                   unassigned, queryAssignation, classified, scratch>>
    /\ UNCHANGED cluVars
    /\ UNCHANGED refVars

\* model.assign, the batch links and rmtree: lines 196-205.
AddQueryAssign ==
    /\ pc = "assign"
    /\ \/ \E labels \in assign(ListOf(unassigned), classified) :
             /\ queryAssignation' = labels
             /\ new_edges' = new_edges \o BatchEdges(unassigned, labels, within_label)
             /\ scratch' = scratch \ ScratchOf(ncalls)
             /\ pc' = "commit"
             /\ error' = error
       \/ /\ pc' = "raised"
          /\ error' = "assign"
          /\ UNCHANGED <<queryAssignation, new_edges, scratch>>
    /\ UNCHANGED <<G, rlist, ncalls, qlist, assignments, unassigned, classified>>
    /\ UNCHANGED cluVars
    /\ UNCHANGED refVars

\* The update of the network: lines 208-209.
AddQueryCommit ==
    /\ pc = "commit"
    /\ G' = add_edges_from(add_nodes_from(G, qlist), new_edges)
    /\ pc' = "idle"
    /\ UNCHANGED <<rlist, ncalls, qlist, assignments, new_edges,
                   unassigned, queryAssignation, classified, scratch, error>>
    /\ UNCHANGED cluVars
    /\ UNCHANGED refVars

Next ==
    \/ Construct
    \/ AddQueryCall
    \/ AddQueryMkdtemp
    \/ AddQueryService
    \/ AddQueryAssign
    \/ AddQueryCommit

\* The reference database compared with itself, then extended by queries.
Spec == Init /\ [][Next]_vars

\* constructNetwork alone, on a reference list and a query list.
BuildQueryLists ==
    {RefList} \cup
    {ListOf(qs) : qs \in {x \in SUBSET QueryPool :
                             Cardinality(x) \in 1..MaxBuildQueries}}

InitBuild ==
    /\ G = EmptyGraph
    /\ rlist = RefList
    /\ pc = "start"
    /\ ncalls = 0
    /\ qlist \in BuildQueryLists
    /\ assignments = <<>>
    /\ new_edges = <<>>
    /\ unassigned = {}
    /\ queryAssignation = <<>>
    /\ classified = {}
    /\ scratch = {}
    /\ error = ""
    /\ CluIdle

NextBuild == Construct

SpecBuild == InitBuild /\ [][NextBuild]_vars

\* ------------------------------------------------- printClusters: labelling

\* The Networks to label: every simple graph on the samples.
ClusterGraphs ==
    {[nodes |-> ClusterSamples, edges |-> E] :
        E \in SUBSET DistinctPairs(ClusterSamples)}

\* What readClusters may return: up to n clusters, each a name and a
\* non-empty set of samples, the names distinct. A sample listed on two rows
\* of the CSV is in two clusters.
RECURSIVE OldClusterings(_)
OldClusterings(n) ==
    IF n = 0 THEN {<<>>}
    ELSE OldClusterings(n - 1) \cup
         {Append(old, [name |-> id, members |-> M]) :
             old \in {o \in OldClusterings(n - 1) : Len(o) = n - 1},
             id \in IdPool, M \in (SUBSET PrevSamples) \ {{}}}

\* printClusters reads the components of the Network and nothing else of
\* it: one Network for every partition of the samples, each component
\* fully linked.
LabelGraphs ==
    {g \in ClusterGraphs : \A c \in connected_components(g) : IsClique(g, c)}

DistinctNames(old) ==
    \A i, j \in 1..Len(old) : i # j => old[i].name # old[j].name

InitClusters ==
    /\ G \in LabelGraphs
    /\ rlist = <<>>
    /\ pc = "print"
    /\ ncalls = 0
    /\ qlist = <<>>
    /\ assignments = <<>>
    /\ new_edges = <<>>
    /\ unassigned = {}
    /\ queryAssignation = <<>>
    /\ classified = {}
    /\ scratch = {}
    /\ error = ""
    /\ hasOld \in BOOLEAN
    /\ oldClusters \in {old \in OldClusterings(MaxOld) : DistinctNames(old)}
    /\ (~hasOld => oldClusters = <<>>)
    /\ newClusters = <<>>
    /\ newClsIdx = 0
    /\ clustering = NoClustering
    /\ new_ref_db = <<>>
    /\ new_id = 0
    /\ csv_rows = <<>>
    /\ cliques = {}
    /\ references = <<>>
    /\ summary = NoSummary

\* Lines 242-256: the components sorted, the previous clustering read.
PrintStart ==
    /\ pc = "print"
    /\ newClusters' \in sorted_by_size(connected_components(G))
    /\ new_id' = IF hasOld THEN FirstFreshId(oldClusters) ELSE 0
    /\ clustering' = NoClustering
    /\ new_ref_db' = <<>>
    /\ newClsIdx' = 0
    /\ pc' = "name"
    /\ UNCHANGED <<G, rlist, ncalls, qlist, assignments, new_edges, unassigned,
                   queryAssignation, classified, scratch, error>>
    /\ UNCHANGED <<hasOld, oldClusters, csv_rows>>
    /\ UNCHANGED refVars

\* One pass of the loop of lines 257-292: the next component gets its name.
PrintName ==
    /\ pc = "name"
    /\ newClsIdx < Len(newClusters)
    /\ LET newCluster == newClusters[newClsIdx + 1]
           ref_only == RefOnly(oldClusters, newCluster)
           scan == ScanOld(ref_only, oldClusters, 1, NoneId)
       IN  IF ~hasOld
           THEN /\ clustering' = Labelled(clustering, newCluster, IntId(newClsIdx))
                /\ newClsIdx' = newClsIdx + 1
                /\ UNCHANGED <<new_id, new_ref_db, pc>>
           ELSE IF IsNovel(ref_only)
           THEN /\ clustering' = Labelled(clustering, newCluster, IntId(new_id))
                /\ new_id' = new_id + 1
                \* list(newCluster)[0]: the first member in the set's order
                /\ \E first \in newCluster : new_ref_db' = Append(new_ref_db, first)
                /\ newClsIdx' = newClsIdx + 1
                /\ UNCHANGED pc
           ELSE IF scan.failed
           THEN /\ pc' = "assert_failed"
                /\ UNCHANGED <<clustering, new_id, new_ref_db, newClsIdx>>
           ELSE /\ clustering' = Labelled(clustering, newCluster, scan.cls_id)
                /\ newClsIdx' = newClsIdx + 1
                /\ UNCHANGED <<new_id, new_ref_db, pc>>
    /\ UNCHANGED <<G, rlist, ncalls, qlist, assignments, new_edges, unassigned,
                   queryAssignation, classified, scratch, error>>
    /\ UNCHANGED <<hasOld, oldClusters, newClusters, csv_rows>>
    /\ UNCHANGED refVars

\* Lines 294-302: the clustering is written and returned.
PrintWrite ==
    /\ pc = "name"
    /\ newClsIdx = Len(newClusters)
    \* printRef has passed the check of line 239; the keys of the dict are
    \* in the order the naming loop inserted them
    /\ \E printRef \in {b \in BOOLEAN : hasOld \/ b} :
       \E keys \in KeyOrders(newClusters, 1) :
          csv_rows' = CsvRows(sorted_by_first_char(keys), clustering,
                              printRef, OldNames(oldClusters))
    /\ pc' = "printed"
    /\ UNCHANGED <<G, rlist, ncalls, qlist, assignments, new_edges, unassigned,
                   queryAssignation, classified, scratch, error>>
    /\ UNCHANGED <<hasOld, oldClusters, newClusters, newClsIdx, clustering,
                   new_ref_db, new_id>>
    /\ UNCHANGED refVars

NextClusters ==
    \/ PrintStart
    \/ PrintName
    \/ PrintWrite

SpecClusters == InitClusters /\ [][NextClusters]_vars

\* ------------------------------------------- extractReferences: selection

RefNodeNames == <<"s1", "s2", "s3", "q1", "q2", "q3">>

\* The Networks to cover: every simple graph on the first n samples,
\* n up to MaxNodes.
RefGraphs ==
    UNION {{[nodes |-> {RefNodeNames[k] : k \in 1..n}, edges |-> E] :
               E \in SUBSET DistinctPairs({RefNodeNames[k] : k \in 1..n})} :
           n \in 0..MaxNodes}

InitRefs ==
    /\ G \in RefGraphs
    /\ rlist = <<>>
    /\ pc = "extract"
    /\ ncalls = 0
    /\ qlist = <<>>
    /\ assignments = <<>>
    /\ new_edges = <<>>
    /\ unassigned = {}
    /\ queryAssignation = <<>>
    /\ classified = {}
    /\ scratch = {}
    /\ error = ""
    /\ CluIdle

\* Lines 42-46: the cliques are listed and sorted by size.
ExtractStart ==
    /\ pc = "extract"
    /\ cliques' = find_cliques(G)
    /\ references' = <<>>
    /\ pc' = "cliques"
    /\ UNCHANGED <<G, rlist, ncalls, qlist, assignments, new_edges, unassigned,
                   queryAssignation, classified, scratch, error, summary>>
    /\ UNCHANGED cluVars

\* One pass of the loop of lines 48-54, on a largest clique not yet
\* visited; first is clique[0], which the order networkx lists the clique
\* in decides.
ExtractClique ==
    /\ pc = "cliques"
    /\ \E clique \in Largest(cliques) : \E first \in clique :
          /\ references' = IF AlreadyRepresented(clique, references)
                           THEN references
                           ELSE Append(references, first)
          /\ cliques' = cliques \ {clique}
    /\ UNCHANGED <<G, rlist, pc, ncalls, qlist, assignments, new_edges,
                   unassigned, queryAssignation, classified, scratch, error,
                   summary>>
    /\ UNCHANGED cluVars

\* Lines 56-62: the references are written and returned.
ExtractReturn ==
    /\ pc = "cliques"
    /\ cliques = {}
    /\ pc' = "extracted"
    /\ UNCHANGED <<G, rlist, ncalls, qlist, assignments, new_edges, unassigned,
                   queryAssignation, classified, scratch, error>>
    /\ UNCHANGED <<cluVars, refVars>>

NextRefs ==
    \/ ExtractStart
    \/ ExtractClique
    \/ ExtractReturn

SpecRefs == InitRefs /\ [][NextRefs]_vars

\* ------------------------------------------------ networkSummary: metrics

InitSummary ==
    /\ G \in RefGraphs
    /\ rlist = <<>>
    /\ pc = "summarise"
    /\ ncalls = 0
    /\ qlist = <<>>
    /\ assignments = <<>>
    /\ new_edges = <<>>
    /\ unassigned = {}
    /\ queryAssignation = <<>>
    /\ classified = {}
    /\ scratch = {}
    /\ error = ""
    /\ CluIdle

\* networkSummary(G) returns.
Summarise ==
    /\ pc = "summarise"
    /\ summary' = networkSummary(G)
    /\ pc' = "summarised"
    /\ UNCHANGED <<G, rlist, ncalls, qlist, assignments, new_edges, unassigned,
                   queryAssignation, classified, scratch, error>>
    /\ UNCHANGED cluVars
    /\ UNCHANGED <<cliques, references>>

NextSummary == Summarise

SpecSummary == InitSummary /\ [][NextSummary]_vars

\* ------------------------------------------------------------------ claims

\* The call of addQueryToNetwork has returned.
Returned == pc = "idle" /\ ncalls > 0

\* The call of addQueryToNetwork has raised.
Raised == pc = "raised"

\* constructNetwork has returned and nothing else has run.
Built == pc = "idle" /\ ncalls = 0

\* The (ref, query) pairs the cross-pair assignments label within-strain.
LabelledWithin ==
    {CrossPairs(rlist, qlist)[k] :
        k \in {i \in DOMAIN assignments : assignments[i] = within_label}}

\* Query q has no within-strain link to any reference.
NoHit(q) == \A p \in LabelledWithin : p[2] # q

\* C1: after a failed batch call of addQueryToNetwork that had recorded
\* direct links in step 1, every (ref, query) pair labelled within-strain is
\* an edge of G and every query is a node of G.
C1_DirectEdgesSurviveFailure ==
    (Raised /\ LabelledWithin # {}) =>
        /\ \A p \in LabelledWithin : {p[1], p[2]} \in G.edges
        /\ Range(qlist) \subseteq G.nodes

\* C2: once addQueryToNetwork has returned or raised, no scratch directory
\* or file it created exists.
C2_ScratchReleased == (Returned \/ Raised) => scratch = {}

\* C3 (as claimed): on return, a query with no direct reference edge has an
\* edge to every query the classifier labels it within-strain with, also to
\* a query that was assigned to a reference.
C3_LinkedToAnyQuery ==
    Returned =>
        \A q \in Range(qlist) : \A p \in Range(qlist) \ {q} :
            (NoHit(q) /\ {p, q} \in classified) => {p, q} \in G.edges

\* C3 (amended): on return every pair labelled within-strain is an edge,
\* every query is a node, and two queries of the call are linked exactly
\* when neither has a reference hit and the classifier labels the pair
\* within-strain; a query with a reference hit is linked to no query.
C3_LinkedOnlyAmongUnassigned ==
    Returned =>
        /\ \A p \in LabelledWithin : {p[1], p[2]} \in G.edges
        /\ Range(qlist) \subseteq G.nodes
        /\ \A q \in Range(qlist) : \A p \in Range(qlist) \ {q} :
               {p, q} \in G.edges <=>
                  (NoHit(p) /\ NoHit(q) /\ {p, q} \in classified)

\* C3 witness: references r1, r2 with no edge, queries q1, q2, (r1, q1)
\* within-strain, q2 without a hit, the classifier links (q1, q2): the call
\* returned with (r1, q1), with q2 a node and without (q1, q2).
C3_Witness ==
    /\ Returned
    /\ qlist = <<"q1", "q2">>
    /\ {"r1", "r2"} \notin G.edges
    /\ <<"r1", "q1">> \in LabelledWithin
    /\ NoHit("q2")
    /\ {"q1", "q2"} \in classified
    /\ {"r1", "q1"} \in G.edges
    /\ "q2" \in G.nodes
    /\ {"q1", "q2"} \notin G.edges

\* The pairs of distinct samples constructNetwork was given as within-strain.
BuiltWithin ==
    {{iterDistRows(rlist, qlist, TRUE)[k][1], iterDistRows(rlist, qlist, TRUE)[k][2]} :
        k \in {i \in DOMAIN assignments : assignments[i] = within_label}}
    \ {{x} : x \in Range(rlist) \cup Range(qlist)}

\* C4: the Network constructNetwork returns has every sample of R and of Q
\* as a node, and an edge for exactly the enumerated pairs of distinct
\* samples labelled within-strain.
C4_AllSamplesAndExactEdges ==
    Built =>
        /\ Range(rlist) \cup Range(qlist) \subseteq G.nodes
        /\ {e \in G.edges : Cardinality(e) = 2} = BuiltWithin

\* C5: the Network never has a self-loop.
C5_NoSelfLoop == \A e \in G.edges : Cardinality(e) = 2

\* printClusters has written the CSV and returned.
Printed == pc = "printed"

\* printClusters stopped at the assertion of line 283 while naming c.
AssertFailedOn(c) ==
    /\ pc = "assert_failed"
    /\ newClusters[newClsIdx + 1] = c

\* printClusters has read the previous clustering and sorted the components.
Naming == hasOld /\ pc # "print"

\* Component c has its name.
Named(c) == c \subseteq DOMAIN clustering

\* The previously known members of component c.
Known(c) == c \cap UNION {oldClusters[i].members : i \in 1..Len(oldClusters)}

\* C6: in the mapping one printClusters call returns, no two distinct
\* components have the same cluster id as written to the CSV.
C6_DistinctIds ==
    Printed =>
        \A c, d \in connected_components(G) :
            c # d => \A m \in c, n \in d :
                        CsvId(clustering[m]) # CsvId(clustering[n])

\* The known members of c lie in no single previous cluster: they span
\* several.
Spans(c) ==
    /\ Known(c) # {}
    /\ \A i \in 1..Len(oldClusters) : ~(Known(c) \subseteq oldClusters[i].members)

\* The ids of the previous clusters that intersect c, from cluster i on,
\* underscore-joined in scan order.
RECURSIVE JoinNames(_, _)
JoinNames(c, i) ==
    IF i > Len(oldClusters) THEN ""
    ELSE IF oldClusters[i].members \cap c = {} THEN JoinNames(c, i + 1)
    ELSE LET rest == JoinNames(c, i + 1)
         IN  IF rest = "" THEN oldClusters[i].name
             ELSE oldClusters[i].name \o "_" \o rest

\* C7: a component whose previously known members span several previous
\* clusters is named, never stops at the assertion, and its id is the ids
\* of all previous clusters that intersect it, underscore-joined in scan
\* order.
C7_CompositeOfAllContributors ==
    Naming =>
        \A c \in connected_components(G) :
            Spans(c) =>
                /\ ~AssertFailedOn(c)
                /\ Printed => Named(c)
                /\ Named(c) => \A m \in c : clustering[m] = StrId(JoinNames(c, 1))

\* C7 witness: previous clusters A = {s1, s2} with id "0" and B = {s3} with
\* id "1", a component {s1, s2, s3, q1}: every member has id "0_1".
C7_Witness ==
    /\ Printed
    /\ oldClusters = <<[name |-> "0", members |-> {"s1", "s2"}],
                       [name |-> "1", members |-> {"s3"}]>>
    /\ {"s1", "s2", "s3", "q1"} \in connected_components(G)
    /\ \A m \in {"s1", "s2", "s3", "q1"} : CsvId(clustering[m]) = "0_1"

\* The known members of c are exactly the members of previous cluster i.
ExactOf(c, i) == Known(c) # {} /\ Known(c) = oldClusters[i].members

\* Component c is named with the id of previous cluster i and gives no
\* new reference.
KeepsId(c, i) ==
    /\ ~AssertFailedOn(c)
    /\ Printed => Named(c)
    /\ Named(c) => \A m \in c : clustering[m] = StrId(oldClusters[i].name)
    /\ Range(new_ref_db) \cap c = {}

\* Previous cluster i is the only one with its membership.
OnlyExactOf(c, i) ==
    /\ ExactOf(c, i)
    /\ \A j \in 1..Len(oldClusters) : ExactOf(c, j) => j = i

\* C8 (as claimed): a component whose previously known members are exactly
\* the members of one previous cluster P gets P's id for all its nodes and
\* gives no new reference.
C8_ExactKeepsId ==
    Naming =>
        \A c \in connected_components(G) : \A i \in 1..Len(oldClusters) :
            OnlyExactOf(c, i) => KeepsId(c, i)

\* No previous cluster but i shares a sample with c.
OnlyClusterOf(c, i) ==
    \A j \in 1..Len(oldClusters) : j # i => oldClusters[j].members \cap c = {}

\* C8 (amended): a component whose previously known members are exactly the
\* members of a previous cluster P, and share no sample with another
\* previous cluster, gets P's id for all its nodes and gives no new
\* reference.
C8_ExactKeepsIdWhenDisjoint ==
    Naming =>
        \A c \in connected_components(G) : \A i \in 1..Len(oldClusters) :
            (ExactOf(c, i) /\ OnlyClusterOf(c, i)) => KeepsId(c, i)

\* C8 witness: the component {s1, s2, q1} continues the previous cluster
\* {s1, s2} beside another previous cluster; the query q1 has its id.
C8_Witness ==
    /\ Printed
    /\ Len(oldClusters) = 2
    /\ {"s1", "s2", "q1"} \in connected_components(G)
    /\ ExactOf({"s1", "s2", "q1"}, 2)
    /\ OnlyClusterOf({"s1", "s2", "q1"}, 2)
    /\ clustering["q1"] = StrId(oldClusters[2].name)
    /\ new_ref_db = <<>>

\* C9: with no previous clustering the k components get exactly the ids
\* 0..k-1, one each, a smaller id never on a smaller component, and every
\* node has the id of its component.
C9_SequentialBySize ==
    (Printed /\ ~hasOld) =>
        LET comps == connected_components(G)
        IN  /\ DOMAIN clustering = G.nodes
            /\ {clustering[m] : m \in G.nodes} =
                  {IntId(n) : n \in 0..(Cardinality(comps) - 1)}
            /\ \A c, d \in comps : \A m \in c, n \in d :
                  /\ (c = d) <=> (clustering[m] = clustering[n])
                  /\ clustering[m].num < clustering[n].num =>
                        Cardinality(c) >= Cardinality(d)

\* C9 witness: three components, of sizes 2, 1 and 1, named 0, 1 and 2.
C9_Witness ==
    /\ Printed
    /\ ~hasOld
    /\ connected_components(G) = {{"s1", "s2"}, {"s3"}, {"q1"}}
    /\ clustering["s1"] = IntId(0)
    /\ clustering["s2"] = IntId(0)
    /\ {clustering["s3"].num, clustering["q1"].num} = {1, 2}

\* extractReferences has returned.
Extracted == pc = "extracted"

\* c is a maximal clique of the Network: its nodes are pairwise linked and
\* no further node is linked to all of them.
MaximalClique(c) ==
    /\ c # {}
    /\ c \subseteq G.nodes
    /\ \A u, v \in c : u # v => {u, v} \in G.edges
    /\ \A w \in G.nodes \ c : \E u \in c : {u, w} \notin G.edges

\* C10: every maximal clique of the Network holds a returned reference.
C10_EveryCliqueCovered ==
    Extracted =>
        \A c \in SUBSET G.nodes :
            MaximalClique(c) => c \cap Range(references) # {}

\* C10 witness: a path s1 - s2 - s3 and the isolated node q1; the middle
\* node covers both edges and q1 covers itself.
C10_Witness ==
    /\ Extracted
    /\ G.nodes = {"s1", "s2", "s3", "q1"}
    /\ G.edges = {{"s1", "s2"}, {"s2", "s3"}}
    /\ references = <<"s2", "q1">>

\* Name a is lexicographically less than or equal to name b, comparing
\* whole names.
NameLeq(a, b) ==
    \/ ord(Chars(a)[1]) < ord(Chars(b)[1])
    \/ /\ Chars(a)[1] = Chars(b)[1]
       /\ ord(Chars(a)[2]) =< ord(Chars(b)[2])

\* C11: in the cluster CSV printClusters has written, the sample name of
\* every row is lexicographically less than or equal to the name of the
\* next row, comparing whole names.
C11_RowsSortedByName ==
    Printed =>
        \A k \in 1..(Len(csv_rows) - 1) :
            NameLeq(csv_rows[k][1], csv_rows[k + 1][1])

\* networkSummary has returned.
Summarised == pc = "summarised"

\* The Network has no edge.
EdgeFree == G.edges = {}

\* The Network is a complete graph: at least one node, no self-loop, and
\* every two distinct nodes linked.
Complete ==
    /\ G.nodes # {}
    /\ G.edges = DistinctPairs(G.nodes)

\* The float r is the integer k.
RatIs(r, k) == r.num = k * r.den

\* C12 (as claimed): networkSummary returns density 0.0 for a graph with no
\* edge and density 1.0, transitivity 1.0, fit_score 0.0 for every complete
\* graph, those on 1 and 2 nodes included.
C12_CompleteGraphMetrics ==
    Summarised =>
        /\ EdgeFree => RatIs(summary.density, 0)
        /\ Complete =>
              /\ RatIs(summary.density, 1)
              /\ RatIs(summary.transitivity, 1)
              /\ RatIs(summary.score, 0)

\* C12 (amended): density 0.0 for every graph with no edge; density 1.0,
\* transitivity 1.0 and fit_score 0.0 for every complete graph on at least 3
\* nodes; density 1.0, transitivity 0.0 and fit_score 0.0 for the complete
\* graph on 2 nodes.
C12_CompleteGraphMetricsFromThree ==
    Summarised =>
        /\ EdgeFree => RatIs(summary.density, 0)
        /\ (Complete /\ Cardinality(G.nodes) >= 3) =>
              /\ RatIs(summary.density, 1)
              /\ RatIs(summary.transitivity, 1)
              /\ RatIs(summary.score, 0)
        /\ (Complete /\ Cardinality(G.nodes) = 2) =>
              /\ RatIs(summary.density, 1)
              /\ RatIs(summary.transitivity, 0)
              /\ RatIs(summary.score, 0)

\* C12 witness: the complete graph on s1, s2, s3, q1: one component, six
\* edges of six, every triplet closed.
C12_Witness ==
    /\ Summarised
    /\ Complete
    /\ Cardinality(G.nodes) = 4
    /\ summary.components = 1
    /\ summary.density = Rat(12, 12)
    /\ summary.transitivity = Rat(24, 24)
    /\ RatIs(summary.score, 0)

\* The queries of the call with no within-strain link to any reference.
NoHitQueries == {q \in Range(qlist) : NoHit(q)}

\* The call is in its batch round.
InBatch == pc \in {"mkdtemp", "service", "assign"}

\* The rows of the batch round labelled within-strain.
BatchWithin ==
    {k \in DOMAIN queryAssignation : queryAssignation[k] = within_label}

\* The pairs of queries the batch round labelled within-strain.
BatchLinked ==
    LET rows == iterDistRows(ListOf(unassigned), ListOf(unassigned), TRUE)
    IN  {{rows[k][1], rows[k][2]} : k \in BatchWithin}

\* C13: addQueryToNetwork is in its batch round only if more than one query
\* has no reference hit; when the links are complete the round has run
\* exactly if more than one query has no hit, once, with one label per pair
\* of the unassigned queries; on return every query is a node, and two
\* queries of the call are linked only if both are unassigned and the round
\* labelled the pair within-strain.
C13_BatchIffSeveralUnassigned ==
    ncalls > 0 =>
        /\ unassigned = NoHitQueries
        /\ (InBatch \/ Raised) => Cardinality(NoHitQueries) > 1
        /\ (pc = "commit" \/ Returned) =>
              /\ queryAssignation # <<>> <=> Cardinality(NoHitQueries) > 1
              /\ Len(queryAssignation) =
                    IF Cardinality(NoHitQueries) > 1
                    THEN NPairsSelf(Cardinality(NoHitQueries)) ELSE 0
              /\ Len(new_edges) =
                    Cardinality(LabelledWithin) + Cardinality(BatchWithin)
        /\ Returned =>
              /\ Range(qlist) \subseteq G.nodes
              /\ \A e \in G.edges :
                    e \subseteq Range(qlist) =>
                        e \subseteq NoHitQueries /\ e \in BatchLinked

\* C13 witness: a first call with the single query q1, without a hit, ran
\* no round and left q1 a node with no edge; a second call with q2 and q3,
\* both without a hit, ran the round, which linked them.
C13_Witness ==
    /\ Returned
    /\ ncalls = 2
    /\ qlist = <<"q2", "q3">>
    /\ NoHitQueries = {"q2", "q3"}
    /\ queryAssignation # <<>>
    /\ {"q2", "q3"} \in G.edges
    /\ "q1" \in G.nodes
    /\ \A e \in G.edges : "q1" \notin e

\* The components with no previously known sample.
NovelComponents == {c \in connected_components(G) : Known(c) = {}}

\* C14: with a previous clustering of m clusters, the components with no
\* previously known sample have exactly the ids m, m+1, ..., one each, a
\* smaller id never on a smaller component, and the new-reference list has
\* one entry per such component: one member of each, and no other sample.
C14_FreshIdsAndNewRefs ==
    (Printed /\ hasOld) =>
        LET m == Len(oldClusters)
            novel == NovelComponents
        IN  /\ {clustering[x] : x \in UNION novel} =
                  {IntId(m + k) : k \in 0..(Cardinality(novel) - 1)}
            /\ \A c, d \in novel : \A x \in c, y \in d :
                  /\ (c = d) <=> (clustering[x] = clustering[y])
                  /\ clustering[x].num < clustering[y].num =>
                        Cardinality(c) >= Cardinality(d)
            /\ Len(new_ref_db) = Cardinality(novel)
            /\ \A c \in novel : Cardinality(c \cap Range(new_ref_db)) = 1
            /\ Range(new_ref_db) \subseteq UNION novel

\* C14 witness: one previous cluster {s1}; the components {s2, s3} and {q1}
\* are new and get the ids 1 and 2, in that order, and one new reference
\* each.
C14_Witness ==
    /\ Printed
    /\ oldClusters = <<[name |-> "0", members |-> {"s1"}]>>
    /\ connected_components(G) = {{"s1"}, {"s2", "s3"}, {"q1"}}
    /\ clustering["s2"] = IntId(1)
    /\ clustering["s3"] = IntId(1)
    /\ clustering["q1"] = IntId(2)
    /\ Len(new_ref_db) = 2
    /\ new_ref_db[1] \in {"s2", "s3"}
    /\ new_ref_db[2] = "q1"

\* Every previously known sample belongs to exactly one previous cluster.
WellFormed ==
    \A i, j \in 1..Len(oldClusters) :
        i # j => oldClusters[i].members \cap oldClusters[j].members = {}

\* The previous clusters with a sample in component c.
Contributors(c) ==
    {i \in 1..Len(oldClusters) : oldClusters[i].members \cap c # {}}

\* C15: with a well-formed previous clustering printClusters never stops at
\* the assertion of line 283, names every component, never with None, and
\* an id taken from the previous clustering is either the id of the only
\* previous cluster with a sample in the component, or the ids of all such
\* clusters, at least two, underscore-joined.
C15_WellFormedNeverFails ==
    (Naming /\ WellFormed) =>
        /\ pc # "assert_failed"
        /\ Printed => DOMAIN clustering = G.nodes
        /\ \A c \in connected_components(G) : \A x \in c :
              Named(c) =>
                 /\ clustering[x].kind # "none"
                 /\ clustering[x].kind = "str" =>
                       \/ /\ Cardinality(Contributors(c)) = 1
                          /\ \A i \in Contributors(c) :
                                clustering[x].str = oldClusters[i].name
                       \/ /\ Cardinality(Contributors(c)) >= 2
                          /\ clustering[x].str = JoinNames(c, 1)

\* C15 witness: the previous clusters {s1} "0" and {s2} "1"; the component
\* {s1, s2, q1} has the composite id "0_1" and the new component {s3} the
\* fresh id 2.
C15_Witness ==
    /\ Printed
    /\ WellFormed
    /\ oldClusters = <<[name |-> "0", members |-> {"s1"}],
                       [name |-> "1", members |-> {"s2"}]>>
    /\ connected_components(G) = {{"s1", "s2", "q1"}, {"s3"}}
    /\ clustering["q1"] = StrId("0_1")
    /\ clustering["s3"] = IntId(2)

\* C16: once the Network is built, a step changes it only as the commit
\* that ends a call of addQueryToNetwork, and that step removes no node and
\* no edge, adds no edge between two references, and leaves every connected
\* component inside a component of the new Network.
C16_OnlyAddsAtCommit ==
    [][(pc # "start" /\ G' # G) =>
          /\ pc = "commit"
          /\ pc' = "idle"
          /\ G.nodes \subseteq G'.nodes
          /\ G.edges \subseteq G'.edges
          /\ \A e \in G'.edges \ G.edges : ~(e \subseteq Range(rlist))
          /\ \A c \in connected_components(G) :
                \E d \in connected_components(G') : c \subseteq d]_vars

\* C16 witness: two calls have returned; the first linked q1 to r1, the
\* second linked q2 to r2, and the references are still unlinked.
C16_Witness ==
    /\ Returned
    /\ ncalls = 2
    /\ qlist = <<"q2">>
    /\ G.nodes = {"r1", "r2", "q1", "q2"}
    /\ G.edges = {{"r1", "q1"}, {"r2", "q2"}}

====
